---- MODULE Spec2Model ----
(***************************************************************************)
(* A model of the range-accrual pricing engine:                            *)
(*   models/cir.py            CoxIngersollRossModel (calibration, paths)   *)
(*   models/fx.py             fx_rate_predict, simulation_correlation      *)
(*   models/range_accrual.py  range_accrual, range_accrual_pricing         *)
(*                                                                         *)
(* Numbers.  The program computes in IEEE doubles.  The model computes in  *)
(* exact arithmetic over the values the code can produce: a finite value   *)
(* (n/d)*sqrt(m) with m squarefree (kind "num"), an infinity with its sign *)
(* (kind "inf"), NaN (kind "nan") and Python's None (kind "None").  The    *)
(* special values follow IEEE rules as numpy applies them under its        *)
(* default error state (a warning, never an exception).  Rounding of       *)
(* finite results and the sign of a zero are not modelled.                 *)
(***************************************************************************)
EXTENDS Integers, Sequences, FiniteSets, TLC

----------------------------------------------------------------------------
(* Integer helpers *)

Abs(x) == IF x < 0 THEN -x ELSE x

Sgn(x) == IF x < 0 THEN -1 ELSE IF x = 0 THEN 0 ELSE 1

RECURSIVE Gcd(_, _)
Gcd(x, y) == IF y = 0 THEN x ELSE Gcd(y, x % y)

\* The largest c >= from with c*c dividing k, searching upwards (k >= 1).
RECURSIVE SquarePartFrom(_, _, _)
SquarePartFrom(k, c, best) ==
    IF c * c > k THEN best
    ELSE SquarePartFrom(k, c + 1, IF k % (c * c) = 0 THEN c ELSE best)

SquarePart(k) == SquarePartFrom(k, 1, 1)

----------------------------------------------------------------------------
(* Values *)

None == [k |-> "None", n |-> 0, d |-> 1, m |-> 1]

NaN == [k |-> "nan", n |-> 0, d |-> 1, m |-> 1]

\* A finite value the representation cannot hold (a sum of unlike surds).
Irr == [k |-> "irr", n |-> 0, d |-> 1, m |-> 1]

Inf(s) == [k |-> "inf", n |-> s, d |-> 1, m |-> 1]

\* (n/d)*sqrt(m) in lowest terms; d > 0, m >= 1 squarefree.
Num(n, d, m) ==
    IF n = 0 THEN [k |-> "num", n |-> 0, d |-> 1, m |-> 1]
    ELSE LET g == Gcd(Abs(n), d)
         IN  [k |-> "num", n |-> n \div g, d |-> d \div g, m |-> m]

Q(n, d) == IF d < 0 THEN Num(-n, -d, 1) ELSE Num(n, d, 1)

Int2V(i) == Num(i, 1, 1)

IsNone(x) == x.k = "None"

IsNaN(x) == x.k = "nan"

IsNum(x) == x.k = "num"

IsInf(x) == x.k = "inf"

IsZero(x) == x.k = "num" /\ x.n = 0

\* numpy.isfinite
IsFinite(x) == x.k = "num" \/ x.k = "irr"

\* The sign of a value that has one: -1, 0, 1.
VSgn(x) == Sgn(x.n)

VNeg(x) ==
    CASE x.k = "num" -> Num(-x.n, x.d, x.m)
      [] x.k = "inf" -> Inf(-x.n)
      [] OTHER -> x

VAbs(x) ==
    CASE x.k = "num" -> Num(Abs(x.n), x.d, x.m)
      [] x.k = "inf" -> Inf(1)
      [] OTHER -> x

VMul(x, y) ==
    CASE x.k = "nan" \/ y.k = "nan" -> NaN
      [] x.k = "inf" \/ y.k = "inf" ->
            IF IsZero(x) \/ IsZero(y) THEN NaN
            ELSE IF x.k = "irr" \/ y.k = "irr" THEN Irr
            ELSE Inf(VSgn(x) * VSgn(y))
      [] IsZero(x) \/ IsZero(y) -> Num(0, 1, 1)
      [] x.k = "irr" \/ y.k = "irr" -> Irr
      [] OTHER ->
            LET g == Gcd(x.m, y.m)
                g1 == Gcd(Abs(x.n), y.d)
                g2 == Gcd(Abs(y.n), x.d)
            IN  Num((x.n \div g1) * (y.n \div g2) * g,
                    (x.d \div g2) * (y.d \div g1),
                    (x.m \div g) * (y.m \div g))

VAdd(x, y) ==
    CASE x.k = "nan" \/ y.k = "nan" -> NaN
      [] x.k = "inf" /\ y.k = "inf" -> IF x.n = y.n THEN x ELSE NaN
      [] x.k = "inf" -> x
      [] y.k = "inf" -> y
      [] IsZero(x) -> y
      [] IsZero(y) -> x
      [] x.k = "irr" \/ y.k = "irr" -> Irr
      [] x.m = y.m ->
            LET g == Gcd(x.d, y.d)
            IN  Num(x.n * (y.d \div g) + y.n * (x.d \div g), (x.d \div g) * y.d, x.m)
      [] OTHER -> Irr

VSub(x, y) == VAdd(x, VNeg(y))

\* 1/x for a finite x # 0:  1/((n/d) sqrt m) = (d/(n m)) sqrt m.
VRecip(x) ==
    IF x.n < 0 THEN Num(-x.d, (-x.n) * x.m, x.m) ELSE Num(x.d, x.n * x.m, x.m)

VDiv(x, y) ==
    CASE x.k = "nan" \/ y.k = "nan" -> NaN
      [] x.k = "inf" /\ y.k = "inf" -> NaN
      [] x.k = "inf" -> IF IsZero(y) THEN x
                        ELSE IF y.k = "irr" THEN Irr
                        ELSE Inf(x.n * VSgn(y))
      [] y.k = "inf" -> Num(0, 1, 1)
      [] IsZero(y) -> IF IsZero(x) THEN NaN
                      ELSE IF x.k = "irr" THEN Irr
                      ELSE Inf(VSgn(x))
      [] x.k = "irr" \/ y.k = "irr" -> Irr
      [] OTHER -> VMul(x, VRecip(y))

\* numpy.sqrt: NaN for a negative argument; sqrt(n/d) = (c1/(c2 m2)) sqrt(m1 m2)
\* where n = c1^2 m1 and d = c2^2 m2.
VSqrt(x) ==
    CASE x.k = "nan" -> NaN
      [] x.k = "inf" -> IF x.n > 0 THEN x ELSE NaN
      [] x.k = "irr" -> Irr
      [] x.n < 0 -> NaN
      [] x.n = 0 -> x
      [] x.m # 1 -> Irr
      [] OTHER ->
            LET c1 == SquarePart(x.n)
                c2 == SquarePart(x.d)
                m1 == x.n \div (c1 * c1)
                m2 == x.d \div (c2 * c2)
            IN  Num(c1, c2 * m2, m1 * m2)

\* x <= y as numpy compares doubles: false when either side is NaN.
VLe(x, y) ==
    CASE x.k = "nan" \/ y.k = "nan" -> FALSE
      [] x.k = "inf" -> x.n < 0 \/ (y.k = "inf" /\ y.n > 0)
      [] y.k = "inf" -> y.n > 0
      [] OTHER -> x.n * y.d <= y.n * x.d

----------------------------------------------------------------------------
(* Bounds and input sets *)

\* The longest rate series handed to a calibration call.
MaxLen == 3

\* The largest n_simulations of a call.
MaxSim == 2

\* The largest t_steps of a call.
MaxSteps == 2

\* Observed rates (whole numbers; 0 is the degenerate rate, -1 exercises abs).
Rates == {Int2V(-1), Int2V(0), Int2V(1), Int2V(2)}

RECURSIVE SeqsOfLen(_, _)
SeqsOfLen(S, len) ==
    IF len = 0 THEN {<<>>}
    ELSE {Append(s, e) : s \in SeqsOfLen(S, len - 1), e \in S}

\* The rate series of the calibration calls: every series of 2..MaxLen rates.
Series == UNION {SeqsOfLen(Rates, len) : len \in 2..MaxLen}

\* delta_t as the constructor receives it; range_accrual_pricing passes 1/n_fix_dates.
DeltaTs == {Q(1, 1), Q(1, 2)}

----------------------------------------------------------------------------
(* models/cir.py: CoxIngersollRossModel.estimate_ols *)

\* Sum over j in 1..len of u[j]*v[j] (numpy's @ on two vectors; 0.0 when empty).
RECURSIVE Dot(_, _, _)
Dot(u, v, len) ==
    IF len = 0 THEN Int2V(0) ELSE VAdd(Dot(u, v, len - 1), VMul(u[len], v[len]))

\* line 43: y = (ir[1:] - ir[:-1]) / sqrt(|ir[:-1]|)
OlsY(ir) ==
    [i \in 1..(Len(ir) - 1) |-> VDiv(VSub(ir[i + 1], ir[i]), VSqrt(VAbs(ir[i])))]

\* line 44: x1 = delta_t / sqrt(|ir[:-1]|)
OlsX1(ir, dt) == [i \in 1..(Len(ir) - 1) |-> VDiv(dt, VSqrt(VAbs(ir[i])))]

\* line 45: x2 = delta_t * sqrt(|ir[:-1]|)
OlsX2(ir, dt) == [i \in 1..(Len(ir) - 1) |-> VMul(dt, VSqrt(VAbs(ir[i])))]

\* line 48: X.T @ X for the two-column X = (x1 | x2) with len rows.
XtX(x1, x2, len) ==
    << <<Dot(x1, x1, len), Dot(x1, x2, len)>>,
       <<Dot(x2, x1, len), Dot(x2, x2, len)>> >>

\* numpy.linalg.inv on a 2x2 matrix: LinAlgError("Singular matrix") when the
\* LU factorisation meets an exactly zero pivot, i.e. the determinant is 0;
\* a NaN or infinite entry is no zero pivot and comes out as NaN everywhere.
Inv2(M) ==
    LET det == VSub(VMul(M[1][1], M[2][2]), VMul(M[1][2], M[2][1]))
        finite == \A i \in 1..2 : \A j \in 1..2 : IsFinite(M[i][j])
    IN  IF ~finite
        THEN [err |-> FALSE, m |-> << <<NaN, NaN>>, <<NaN, NaN>> >>]
        ELSE IF IsZero(det)
        THEN [err |-> TRUE, m |-> << <<NaN, NaN>>, <<NaN, NaN>> >>]
        ELSE [err |-> FALSE,
              m |-> << <<VDiv(M[2][2], det), VDiv(VNeg(M[1][2]), det)>>,
                       <<VDiv(VNeg(M[2][1]), det), VDiv(M[1][1], det)>> >>]

\* line 48: w = inv(X.T @ X) @ X.T @ y, evaluated left to right.
OlsW(inv, x1, x2, y, len) ==
    LET P == [i \in 1..2 |->
                [j \in 1..len |-> VAdd(VMul(inv[i][1], x1[j]), VMul(inv[i][2], x2[j]))]]
    IN  <<Dot(P[1], y, len), Dot(P[2], y, len)>>

\* line 51: sum((y - X @ w) ** 2)
OlsRss(x1, x2, y, w, len) ==
    LET e == [j \in 1..len |->
                VSub(y[j], VAdd(VMul(x1[j], w[1]), VMul(x2[j], w[2])))]
    IN  Dot(e, e, len)

\* lines 49-51: a = -w[1];  b = w[0]/a;  sigma = (1/(len(y)*delta_t)**0.5)*sqrt(rss)
OlsParams(w, rss, len, dt) ==
    LET a0 == VMul(Int2V(-1), w[2])
    IN  [a |-> a0,
         b |-> VDiv(w[1], a0),
         sigma |-> VMul(VDiv(Int2V(1), VSqrt(VMul(Int2V(len), dt))), VSqrt(rss))]

\* lines 42-55: the outcome of estimate_ols(ir) on a model with delta_t = dt:
\* err when numpy.linalg.inv raises, else the a, b, sigma it stores.
OlsEstimate(ir, dt) ==
    LET len == Len(ir) - 1
        y == OlsY(ir)
        x1 == OlsX1(ir, dt)
        x2 == OlsX2(ir, dt)
        inv == Inv2(XtX(x1, x2, len))
        w == OlsW(inv.m, x1, x2, y, len)
    IN  IF inv.err THEN [err |-> TRUE, a |-> None, b |-> None, sigma |-> None]
        ELSE [err |-> FALSE] @@ OlsParams(w, OlsRss(x1, x2, y, w, len), len, dt)

----------------------------------------------------------------------------
(* models/cir.py: CoxIngersollRossModel.make_interest_rate_simulations *)

\* The start rates r0 of the simulation calls.
StartRates == {Int2V(1), Int2V(2)}

\* The standard-normal draws: any real may come.  The model draws the ones that
\* move a path by a whole shock z, i.e. z/scale where the step's noise scale
\* sigma*sqrt(|r|*delta_t) is a finite non-zero number, and z itself otherwise.
Shocks == {-1, 1}

Wiener(scale, z) ==
    IF IsNum(scale) /\ ~IsZero(scale) THEN VDiv(Int2V(z), scale) ELSE Int2V(z)

RECURSIVE VSum(_, _)
VSum(v, len) == IF len = 0 THEN Int2V(0) ELSE VAdd(VSum(v, len - 1), v[len])

\* numpy.mean of a vector of len values
VMean(v, len) == VDiv(VSum(v, len), Int2V(len))

\* numpy.std of a vector of len values (population standard deviation)
VStd(v, len) ==
    LET mu == VMean(v, len)
        dev == [i \in 1..len |-> VMul(VSub(v[i], mu), VSub(v[i], mu))]
    IN  VSqrt(VMean(dev, len))

\* line 88: r = r0 * np.ones((n_simulations, 1))
StartColumn(r0, n) == [i \in 1..n |-> <<r0>>]

\* line 95: r_previous + a*(b - r_previous)*delta_t
\*          + sigma*sqrt(|r_previous|*delta_t)*wiener_multiplier
EulerStep(pa, pb, psigma, dt, prev, z) ==
    LET scale == VMul(psigma, VSqrt(VMul(VAbs(prev), dt)))
    IN  VAdd(VAdd(prev, VMul(VMul(pa, VSub(pb, prev)), dt)),
             VMul(scale, Wiener(scale, z)))

\* lines 91-97: np.hstack((r, next column)) for the draws zs, one per row.
AppendColumn(m, pa, pb, psigma, dt, zs) ==
    [i \in DOMAIN m |->
        Append(m[i], EulerStep(pa, pb, psigma, dt, m[i][Len(m[i])], zs[i]))]

\* A loop that runs once too often: range(t_steps + 1).
LoopRunsOnceMore(done, t_steps) == done < t_steps + 1

\* line 89: for _ in range(t_steps)
LoopRuns(done, t_steps) == done < t_steps

\* line 98: last_t_simulation = r[:, -1]
LastColumn(m) == [i \in DOMAIN m |-> m[i][Len(m[i])]]

----------------------------------------------------------------------------
(* Path matrices: numpy 2-D arrays, a sequence of rows of equal length *)

Rows(m) == Len(m)

Cols(m) == IF Len(m) = 0 THEN 0 ELSE Len(m[1])

Shape(m) == <<Rows(m), Cols(m)>>

Transpose(m) == [j \in 1..Cols(m) |-> [i \in 1..Rows(m) |-> m[i][j]]]

\* numpy broadcasting of row counts: every count other than 1 must be the same;
\* the common count, or 0 when the operands cannot be broadcast together.
BroadcastRows(counts) ==
    LET big == counts \ {1}
    IN  IF big = {} THEN 1
        ELSE IF Cardinality(big) = 1 THEN CHOOSE c \in big : TRUE
        ELSE 0

\* Row i of an (R,1) operand broadcast against more rows.
Bc(m, i) == IF Rows(m) = 1 THEN 1 ELSE i

----------------------------------------------------------------------------
(* models/fx.py: fx_rate_predict *)

\* fx.py line 25: fx_previous + fx_previous*(((rt_foreign - rt_domestic)/100)*dt
\*                                           + sigma*wiener_multiplier)
FxStep(fx_previous, rt_domestic, rt_foreign, dt, vol, z) ==
    VAdd(fx_previous,
         VMul(fx_previous,
              VAdd(VMul(VDiv(VSub(rt_foreign, rt_domestic), Int2V(100)), dt),
                   VMul(vol, Wiener(vol, z)))))

\* lines 17-27: the loop from iteration tm on.  Column tm of both rate matrices
\* must exist (IndexError); the operands must broadcast and the new column must
\* have as many rows as fx (ValueError from the arithmetic or from np.hstack).
RECURSIVE FxLoop(_, _, _, _, _, _, _, _)
FxLoop(fx, tm, n, t, dom, for, vol, zs) ==
    IF ~(tm < t) THEN [outcome |-> "returned", fx |-> fx]
    ELSE IF Cols(dom) < tm + 1 \/ Cols(for) < tm + 1
    THEN [outcome |-> "IndexError", fx |-> <<>>]
    ELSE IF BroadcastRows({Rows(for), Rows(dom), n, Rows(fx)}) # Rows(fx)
    THEN [outcome |-> "ValueError", fx |-> <<>>]
    ELSE FxLoop([i \in 1..Rows(fx) |->
                    Append(fx[i], FxStep(fx[i][Len(fx[i])],
                                         dom[Bc(dom, i)][tm + 1],
                                         for[Bc(for, i)][tm + 1],
                                         Q(1, t), vol, zs[tm + 1][i]))],
                tm + 1, n, t, dom, for, vol, zs)

\* lines 5-29: fx_rate_predict(n_simulations, t_steps, fx0, domestic_rate,
\* foreign_rate, sigma) for the draws zs[step][row].  dt = 1/t_steps divides by
\* zero for t_steps = 0.
FxRatePredictFn(n, t, fx0, dom, for, vol, zs) ==
    IF t = 0 THEN [outcome |-> "ZeroDivisionError", fx |-> <<>>]
    ELSE FxLoop(StartColumn(fx0, n), 0, n, t, dom, for, vol, zs)

----------------------------------------------------------------------------
(* models/fx.py: simulation_correlation *)

\* The product taken with the factor transposed: uncorr_sim @ chol_matrix.
CorrSimTransposed(chol, usd_vector, rur_vector, fx_vector) ==
    [t \in 1..Len(usd_vector) |->
        [c \in 1..3 |->
            VAdd(VAdd(VMul(chol[1][c], usd_vector[t]),
                      VMul(chol[2][c], rur_vector[t])),
                 VMul(chol[3][c], fx_vector[t]))]]

\* lines 42-47 and 54-59: the three series of one simulation side by side, each
\* time step's 3-vector multiplied by chol_matrix: np.matmul(chol, uncorr.T).T
CorrSim(chol, usd_vector, rur_vector, fx_vector) ==
    [t \in 1..Len(usd_vector) |->
        [c \in 1..3 |->
            VAdd(VAdd(VMul(chol[c][1], usd_vector[t]),
                      VMul(chol[c][2], rur_vector[t])),
                 VMul(chol[c][3], fx_vector[t]))]]

\* Every output taken from component 0: corr_sim.T[0] copied to all three.
CorrElementFirst(corr_sim, c) == [t \in 1..Len(corr_sim) |-> <<corr_sim[t][1]>>]

\* lines 49-51 and 60-62: corr_sim.T[c].reshape(-1, 1), a column
CorrElement(corr_sim, c) == [t \in 1..Len(corr_sim) |-> <<corr_sim[t][c]>>]

\* lines 64-66: np.concatenate((m, element), axis=1)
ConcatColumns(m, element) == [t \in 1..Len(m) |-> m[t] \o element[t]]

\* line 53: the simulations the loop visits, after simulation 0
CorrLoopRange(n) == 1..(n - 1)

\* lines 53-66: the loop from simulation index n_sim (0-based) on.
RECURSIVE CorrLoop(_, _, _, _, _, _, _)
CorrLoop(acc, n_sim, n, usd, rur, fx, chol) ==
    IF n_sim \notin CorrLoopRange(n)
    THEN [outcome |-> "returned",
          usd_corr |-> acc[1], rur_corr |-> acc[2], fx_corr |-> acc[3]]
    ELSE IF Rows(usd) < n_sim + 1 \/ Rows(rur) < n_sim + 1 \/ Rows(fx) < n_sim + 1
    THEN [outcome |-> "IndexError",
          usd_corr |-> <<>>, rur_corr |-> <<>>, fx_corr |-> <<>>]
    ELSE LET corr_sim == CorrSim(chol, usd[n_sim + 1], rur[n_sim + 1], fx[n_sim + 1])
         IN  CorrLoop([c \in 1..3 |-> ConcatColumns(acc[c], CorrElement(corr_sim, c))],
                      n_sim + 1, n, usd, rur, fx, chol)

\* lines 32-68: simulation_correlation(simulated_usd_rate, simulated_rur_rate,
\* simulated_fx_rate, n_simulations, chol_matrix).  Row 0 of each input is read
\* first; np.concatenate(axis=1) of columns of unlike length raises ValueError.
SimulationCorrelationFn(usd, rur, fx, n, chol) ==
    IF Rows(usd) = 0 \/ Rows(rur) = 0 \/ Rows(fx) = 0
    THEN [outcome |-> "IndexError",
          usd_corr |-> <<>>, rur_corr |-> <<>>, fx_corr |-> <<>>]
    ELSE IF Cols(usd) # Cols(rur) \/ Cols(usd) # Cols(fx)
    THEN [outcome |-> "ValueError",
          usd_corr |-> <<>>, rur_corr |-> <<>>, fx_corr |-> <<>>]
    ELSE LET corr_sim == CorrSim(chol, usd[1], rur[1], fx[1])
         IN  CorrLoop([c \in 1..3 |-> CorrElement(corr_sim, c)],
                      1, n, usd, rur, fx, chol)

----------------------------------------------------------------------------
(* models/range_accrual.py: range_accrual *)

\* The condition with upper_bound = 0 taken as a bound, not as "no bound".
InBandAlwaysUpper(v, upper_bound, lower_bound) ==
    VLe(lower_bound, v) /\ VLe(v, upper_bound)

\* lines 22-25: the condition on one FX value
InBand(v, upper_bound, lower_bound) ==
    IF ~VLe(upper_bound, Int2V(0))
    THEN VLe(lower_bound, v) /\ VLe(v, upper_bound)
    ELSE VLe(lower_bound, v)

\* The time-0 row kept: fx_corr.T.
FxSimsWithStart(fx_corr) == Transpose(fx_corr)

\* line 21: fx_corr[1:].T, the sequences the loop iterates over
FxSims(fx_corr) == Transpose(Tail(fx_corr))

\* lines 22-25: np.sum(condition) / n_fix_dates for one sequence
ShareOfWin(fx_sim, n_fix_dates, upper_bound, lower_bound) ==
    VDiv(Int2V(Cardinality({t \in 1..Len(fx_sim) :
                               InBand(fx_sim[t], upper_bound, lower_bound)})),
         Int2V(n_fix_dates))

\* lines 20-26: sum_of_payouts after the first cnt sequences
RECURSIVE SumOfPayouts(_, _, _, _, _, _)
SumOfPayouts(sims, cnt, notional, n_fix_dates, upper_bound, lower_bound) ==
    IF cnt = 0 THEN Int2V(0)
    ELSE VAdd(SumOfPayouts(sims, cnt - 1, notional, n_fix_dates,
                           upper_bound, lower_bound),
              VMul(notional,
                   ShareOfWin(sims[cnt], n_fix_dates, upper_bound, lower_bound)))

\* lines 7-27: range_accrual(notional, n_fix_dates, n_simulations, fx_corr,
\* upper_bound, lower_bound)
RangeAccrualFn(notional, n_fix_dates, n, fx_corr, upper_bound, lower_bound) ==
    LET sims == IF Rows(fx_corr) > 1 THEN FxSims(fx_corr)
                ELSE [i \in 1..Cols(fx_corr) |-> <<>>]
    IN  VDiv(SumOfPayouts(sims, Len(sims), notional, n_fix_dates,
                          upper_bound, lower_bound),
             Int2V(n))

----------------------------------------------------------------------------
(* Inputs of the FX stages *)

\* A path matrix as the simulators build one: column 0 holds the start value
\* in every row, and the rows part from each other afterwards.
PathMatrix(rows, cols, base, slope) ==
    [i \in 1..rows |-> [j \in 1..cols |-> Int2V(base + slope * i * (j - 1))]]

\* The shapes handed in: up to MaxSim rows, up to MaxSteps + 1 columns.
Shapes == (1..MaxSim) \X (1..(MaxSteps + 1))

UsdPaths == {PathMatrix(sh[1], sh[2], 1, 1) : sh \in Shapes}

RurPaths == {PathMatrix(sh[1], sh[2], 2, -1) : sh \in Shapes}

FxPaths == {PathMatrix(sh[1], sh[2], 3, slope) : sh \in Shapes, slope \in {1, 2}}

Identity3 ==
    << <<Int2V(1), Int2V(0), Int2V(0)>>,
       <<Int2V(0), Int2V(1), Int2V(0)>>,
       <<Int2V(0), Int2V(0), Int2V(1)>> >>

\* chol_matrix: the identity and a lower-triangular factor that mixes all three.
CholMatrices ==
    { Identity3,
      << <<Int2V(1), Int2V(0), Int2V(0)>>,
         <<Int2V(1), Int2V(2), Int2V(0)>>,
         <<Int2V(-1), Int2V(1), Int2V(3)>> >> }

\* range_accrual_pricing passes sigma = 0.05 to fx_rate_predict (line 51).
FxSigma == Q(1, 20)

FxStart == Int2V(3)

Notionals == {Int2V(1), Int2V(3)}

\* upper_bound: 0 is the default and means no upper bound.
UpperBounds == {Int2V(0), Int2V(5)}

LowerBounds == {Int2V(-100), Int2V(0), Int2V(4)}

----------------------------------------------------------------------------
(* models/range_accrual.py: the history frame of range_accrual_pricing *)

\* An index label of the frame: an integer, or a label of another type (a
\* string, a timestamp), told apart by kind.
IntLabel(i) == [kind |-> "int", v |-> i]

OtherLabel(i) == [kind |-> "other", v |-> i]

\* One row of history_data: its index label and the columns the code reads.
Row(label, date, rur, usd, fx) ==
    [label |-> label, Date |-> date, RUR |-> rur, USD |-> usd, FX_Rate |-> fx]

\* lines 38-40: history_data.sort_values(by=['Date'], ascending=False): the
\* rows by falling Date (the dates of a frame are distinct), labels kept.
SortValuesDescending(df) ==
    [k \in 1..Len(df) |->
        df[CHOOSE i \in 1..Len(df) :
              Cardinality({j \in 1..Len(df) : df[j].Date > df[i].Date}) = k - 1]]

\* lines 38-40: series[0] on a column of the sorted frame.  On an integer
\* index 0 is a label: the row labelled 0, KeyError without one.  On any other
\* index pandas before 3.0 falls back to position 0 and pandas from 3.0 on
\* raises KeyError; positional says which pandas runs.
GetItem0(df, positional) ==
    LET int_index == \A i \in 1..Len(df) : df[i].label.kind = "int"
        at_label  == {i \in 1..Len(df) : df[i].label = IntLabel(0)}
    IN  IF int_index
        THEN IF at_label = {} THEN [raised |-> TRUE, row |-> 0]
             ELSE [raised |-> FALSE, row |-> CHOOSE i \in at_label : TRUE]
        ELSE IF positional /\ Len(df) > 0 THEN [raised |-> FALSE, row |-> 1]
             ELSE [raised |-> TRUE, row |-> 0]

\* lines 44 and 48: history_data['RUR'], history_data['USD'] in frame order
ColumnRUR(df) == [i \in 1..Len(df) |-> df[i].RUR]

ColumnUSD(df) == [i \in 1..Len(df) |-> df[i].USD]

\* The frames handed in: three dated rows holding, by date, RUR 2, 1, 3,
\* USD 1, 3, 2 and FX-Rate 3, 4, 5 (the last the most recent), in rising,
\* falling or mixed date order, under the default labels 0, 1, 2, under
\* integer labels without a 0, under mixed-up integer labels, or under labels
\* that are not integers.
RurByDate == <<Int2V(2), Int2V(1), Int2V(3)>>

UsdByDate == <<Int2V(1), Int2V(3), Int2V(2)>>

FxByDate == <<Int2V(3), Int2V(4), Int2V(5)>>

DateOrders == {<<1, 2, 3>>, <<3, 2, 1>>, <<2, 3, 1>>}

Labellings ==
    { [i \in 1..3 |-> IntLabel(i - 1)],
      [i \in 1..3 |-> IntLabel(i)],
      [i \in 1..3 |-> IntLabel((i + 1) % 3)],
      [i \in 1..3 |-> OtherLabel(i)] }

Histories ==
    { [i \in 1..3 |-> Row(lab[i], ord[i], RurByDate[ord[i]], UsdByDate[ord[i]],
                           FxByDate[ord[i]])] :
        ord \in DateOrders, lab \in Labellings }

----------------------------------------------------------------------------
(* State *)

VARIABLES
    interest_rate,          \* the rate series the caller calibrates cir on
    a, b, sigma, delta_t,   \* the fields of the CoxIngersollRossModel `cir`
    pc,                     \* where the running call stands; "idle" between calls
    calib,                  \* the last calibration call on cir: arguments and outcome
    fields_from,            \* the call that last assigned cir.a, cir.b, cir.sigma
    sim,                    \* the arguments of the last make_interest_rate_simulations
    r,                      \* its local r: one row per simulation
    step,                   \* the iterations of its loop completed
    sim_ret,                \* what it returned or raised
    fxp,                    \* the last fx_rate_predict call: arguments and outcome
    corr,                   \* the last simulation_correlation call
    accr,                   \* the last range_accrual call
    history_data,           \* the frame range_accrual_pricing was called on
    pricing                 \* the range_accrual_pricing call: arguments, locals, outcome

cir_vars == <<interest_rate, a, b, sigma, delta_t, pc, calib, fields_from, sim, r, step, sim_ret>>

fx_vars == <<fxp, corr, accr>>

pricing_vars == <<history_data, pricing>>

vars == <<cir_vars, fx_vars, pricing_vars>>

NoCalib ==
    [op |-> "none", outcome |-> "none",
     guess |-> <<None, None, None>>, success |-> FALSE,
     seed_from |-> [op |-> "none", x |-> <<None, None, None>>]]

NoSim == [r0 |-> None, n_simulations |-> 0, t_steps |-> 0]

NoRet == [outcome |-> "none", r |-> <<>>, mean |-> None, stderr |-> None]

\* cir.py lines 33-37: __init__(delta_t)
CirInit(ir, dt) ==
    /\ interest_rate = ir
    /\ a = None
    /\ b = None
    /\ sigma = None
    /\ delta_t = dt
    /\ pc = "idle"
    /\ calib = NoCalib
    /\ fields_from = [op |-> "none", x |-> <<None, None, None>>]
    /\ sim = NoSim
    /\ r = <<>>
    /\ step = 0
    /\ sim_ret = NoRet

ClearSim ==
    /\ sim' = NoSim
    /\ r' = <<>>
    /\ step' = 0
    /\ sim_ret' = NoRet

\* cir.py lines 42-55: estimate_ols(interest_rate).  numpy.linalg.inv raising
\* leaves the fields as they were; every other run stores a, b, sigma and
\* returns None.
EstimateOls ==
    LET est == OlsEstimate(interest_rate, delta_t)
    IN  /\ pc = "idle"
        /\ IF est.err
           THEN /\ UNCHANGED <<a, b, sigma, fields_from>>
                /\ calib' = [NoCalib EXCEPT !.op = "estimate_ols",
                                            !.outcome = "LinAlgError"]
           ELSE /\ a' = est.a
                /\ b' = est.b
                /\ sigma' = est.sigma
                /\ fields_from' = [op |-> "estimate_ols",
                                   x |-> <<est.a, est.b, est.sigma>>]
                /\ calib' = [NoCalib EXCEPT !.op = "estimate_ols",
                                            !.outcome = "returned"]
        /\ ClearSim
        /\ UNCHANGED <<interest_rate, delta_t, pc>>

----------------------------------------------------------------------------
(* models/cir.py: CoxIngersollRossModel.optimize_negative_likelihood *)

\* Parameter vectors scipy.optimize.minimize may end at, besides its start.
OptimizerX ==
    { <<Q(1, 1), Q(2, 1), Q(1, 2)>>, <<Q(-1, 2), Q(1, 1), Q(1, 1)>> }

\* An initial guess with the first two parameters in the wrong order.
InitialGuessSwapped == <<b, a, sigma>>

\* line 81: the initial guess handed to optimize.minimize
InitialGuess == <<a, b, sigma>>

\* numpy's conversion of a parameter vector to float64: None becomes NaN.
AsFloat(x0) == [i \in 1..3 |-> IF IsNone(x0[i]) THEN NaN ELSE x0[i]]

\* lines 79-83: optimize.minimize(objective, x0, args) is the library's: a black
\* box that ends at some vector x with a convergence flag `success`.  A start
\* holding None either raises TypeError in the objective (2 * None) or is
\* converted to NaN first, depending on the scipy release; from a start that
\* is not finite no step is taken.
MinimizeResults(x0) ==
    LET finite == \A i \in 1..3 : IsFinite(x0[i])
        none == \E i \in 1..3 : IsNone(x0[i])
        ends == IF finite THEN OptimizerX \cup {x0} ELSE {AsFloat(x0)}
    IN  {[raised |-> FALSE, x |-> x, success |-> ok] : x \in ends, ok \in BOOLEAN}
        \cup (IF none THEN {[raised |-> TRUE, x |-> x0, success |-> FALSE]} ELSE {})

\* lines 78-85: optimize_negative_likelihood(interest_rate): the fields become
\* mle_result.x whatever mle_result.success says, and mle_result is returned.
Optimize ==
    /\ pc = "idle"
    /\ \E res \in MinimizeResults(InitialGuess) :
          IF res.raised
          THEN /\ UNCHANGED <<a, b, sigma, fields_from>>
               /\ calib' = [op |-> "optimize", outcome |-> "TypeError",
                            guess |-> InitialGuess, success |-> FALSE,
                            seed_from |-> fields_from]
          ELSE /\ a' = res.x[1]
               /\ b' = res.x[2]
               /\ sigma' = res.x[3]
               /\ fields_from' = [op |-> "optimize", x |-> res.x]
               /\ calib' = [op |-> "optimize", outcome |-> "returned",
                            guess |-> InitialGuess, success |-> res.success,
                            seed_from |-> fields_from]
    /\ ClearSim
    /\ UNCHANGED <<interest_rate, delta_t, pc>>

\* lines 87-88: make_interest_rate_simulations(r0, n_simulations, t_steps) begins.
SimBegin(r0, n, t) ==
    /\ pc = "idle"
    /\ pc' = "simulate"
    /\ sim' = [r0 |-> r0, n_simulations |-> n, t_steps |-> t]
    /\ r' = StartColumn(r0, n)
    /\ step' = 0
    /\ sim_ret' = NoRet
    /\ UNCHANGED <<interest_rate, a, b, sigma, delta_t, calib, fields_from>>

\* lines 89-97: one iteration of the loop.  Arithmetic on a field that is still
\* None raises TypeError.
SimStep ==
    /\ pc = "simulate"
    /\ LoopRuns(step, sim.t_steps)
    /\ IF IsNone(a) \/ IsNone(b) \/ IsNone(sigma)
       THEN /\ pc' = "idle"
            /\ sim_ret' = [NoRet EXCEPT !.outcome = "TypeError"]
            /\ UNCHANGED <<r, step>>
       ELSE /\ \E zs \in [1..sim.n_simulations -> Shocks] :
                  r' = AppendColumn(r, a, b, sigma, delta_t, zs)
            /\ step' = step + 1
            /\ UNCHANGED <<pc, sim_ret>>
    /\ UNCHANGED <<interest_rate, a, b, sigma, delta_t, calib, fields_from, sim>>

\* lines 98-99: the loop is over; return r, mean and standard error of the
\* last column.
SimReturn ==
    /\ pc = "simulate"
    /\ ~LoopRuns(step, sim.t_steps)
    /\ pc' = "idle"
    /\ sim_ret' = [outcome |-> "returned", r |-> r,
                   mean |-> VMean(LastColumn(r), sim.n_simulations),
                   stderr |-> VDiv(VStd(LastColumn(r), sim.n_simulations),
                                   VSqrt(Int2V(sim.n_simulations)))]
    /\ UNCHANGED <<interest_rate, a, b, sigma, delta_t, calib, fields_from, sim, r, step>>

----------------------------------------------------------------------------
(* The FX stages as calls *)

NoFxp ==
    [outcome |-> "none", n_simulations |-> 0, t_steps |-> 0,
     domestic_rate |-> <<>>, foreign_rate |-> <<>>, fx |-> <<>>]

NoCorr ==
    [outcome |-> "none", n_simulations |-> 0, chol_matrix |-> <<>>,
     usd |-> <<>>, rur |-> <<>>, fx |-> <<>>,
     usd_corr |-> <<>>, rur_corr |-> <<>>, fx_corr |-> <<>>]

NoAccr ==
    [outcome |-> "none", notional |-> None, n_fix_dates |-> 0,
     upper_bound |-> None, lower_bound |-> None, ret |-> None]

FxIdle ==
    /\ fxp = NoFxp
    /\ corr = NoCorr
    /\ accr = NoAccr

\* fx.py lines 5-29: one call of fx_rate_predict.
FxRatePredict(n, t, fx0, dom, for, vol) ==
    /\ \E zs \in [1..t -> [1..n -> Shocks]] :
          LET res == FxRatePredictFn(n, t, fx0, dom, for, vol, zs)
          IN  fxp' = [outcome |-> res.outcome, n_simulations |-> n, t_steps |-> t,
                      domestic_rate |-> dom, foreign_rate |-> for, fx |-> res.fx]
    /\ UNCHANGED corr

\* fx.py lines 32-68: one call of simulation_correlation.
SimulationCorrelation(usd, rur, fx, n, chol) ==
    /\ LET res == SimulationCorrelationFn(usd, rur, fx, n, chol)
       IN  corr' = [outcome |-> res.outcome, n_simulations |-> n, chol_matrix |-> chol,
                    usd |-> usd, rur |-> rur, fx |-> fx,
                    usd_corr |-> res.usd_corr, rur_corr |-> res.rur_corr,
                    fx_corr |-> res.fx_corr]
    /\ UNCHANGED fxp

\* range_accrual.py lines 7-27: one call of range_accrual on the correlated FX
\* paths, with n_simulations as range_accrual_pricing passes it (line 56).
RangeAccrual(notional, n_fix_dates, upper_bound, lower_bound) ==
    /\ corr.outcome = "returned"
    /\ accr' = [outcome |-> "returned", notional |-> notional,
                n_fix_dates |-> n_fix_dates,
                upper_bound |-> upper_bound, lower_bound |-> lower_bound,
                ret |-> RangeAccrualFn(notional, n_fix_dates, corr.n_simulations,
                                       corr.fx_corr, upper_bound, lower_bound)]
    /\ UNCHANGED <<fxp, corr>>

----------------------------------------------------------------------------
(* models/range_accrual.py: range_accrual_pricing, stage by stage *)

NoPricing ==
    [stage |-> "none", outcome |-> "none", positional |-> FALSE,
     n_simulations |-> 0, n_fix_dates |-> 0, chol_matrix |-> <<>>,
     notional |-> None, upper_bound |-> None, lower_bound |-> None,
     r_start_rur |-> None, r_start_usd |-> None, fx0 |-> None,
     simulated_rur_rate |-> <<>>, simulated_usd_rate |-> <<>>,
     fair_value |-> None]

PricingIdle ==
    /\ history_data = <<>>
    /\ pricing = NoPricing

\* The call ends in the exception a stage raised.
PricingRaised(p, exception) == [p EXCEPT !.stage = "done", !.outcome = exception]

\* cir.py lines 33-37 as an assignment: cir = CoxIngersollRossModel(delta_t),
\* about to be calibrated on the series ir.
CirNew(ir, dt) ==
    /\ interest_rate' = ir
    /\ a' = None
    /\ b' = None
    /\ sigma' = None
    /\ delta_t' = dt
    /\ pc' = "idle"
    /\ calib' = NoCalib
    /\ fields_from' = [op |-> "none", x |-> <<None, None, None>>]
    /\ ClearSim

\* lines 30-43: the call begins: the three start values (lines 38-40),
\* delta_t = 1 / n_fix_dates (line 41) and the first model (line 43).
PricingBegin(df, n, n_fix_dates, chol, notional, upper_bound, lower_bound) ==
    /\ pricing.stage = "none"
    /\ history_data' = df
    /\ \E positional \in BOOLEAN :
          LET sorted == SortValuesDescending(df)
              got    == GetItem0(sorted, positional)
              args   == [NoPricing EXCEPT !.positional = positional,
                                          !.n_simulations = n,
                                          !.n_fix_dates = n_fix_dates,
                                          !.chol_matrix = chol,
                                          !.notional = notional,
                                          !.upper_bound = upper_bound,
                                          !.lower_bound = lower_bound]
              begun  == [args EXCEPT !.r_start_rur = sorted[got.row].RUR,
                                     !.r_start_usd = sorted[got.row].USD,
                                     !.fx0 = sorted[got.row].FX_Rate]
          IN  IF got.raised
              THEN /\ pricing' = PricingRaised(args, "KeyError")
                   /\ UNCHANGED cir_vars
              ELSE IF n_fix_dates = 0
              THEN /\ pricing' = PricingRaised(begun, "ZeroDivisionError")
                   /\ UNCHANGED cir_vars
              ELSE /\ pricing' = [begun EXCEPT !.stage = "rur"]
                   /\ CirNew(ColumnRUR(df), Q(1, n_fix_dates))
    /\ UNCHANGED fx_vars

\* lines 44 and 48: cir.estimate_ols(history_data[...]); the exception of
\* numpy.linalg.inv ends the call.
PricingEstimate ==
    /\ pricing.stage \in {"rur", "usd"}
    /\ calib.op = "none"
    /\ EstimateOls
    /\ pricing' = IF calib'.outcome = "returned" THEN pricing
                  ELSE PricingRaised(pricing, calib'.outcome)
    /\ UNCHANGED <<history_data, fx_vars>>

\* lines 45 and 49: cir.make_interest_rate_simulations(r_start, n_simulations,
\* n_fix_dates) begins, runs an iteration, returns.
PricingSimBegin ==
    /\ pricing.stage \in {"rur", "usd"}
    /\ calib.outcome = "returned"
    /\ sim_ret.outcome = "none"
    /\ SimBegin(IF pricing.stage = "rur" THEN pricing.r_start_rur
                ELSE pricing.r_start_usd,
                pricing.n_simulations, pricing.n_fix_dates)
    /\ UNCHANGED <<pricing_vars, fx_vars>>

PricingSimStep ==
    /\ pricing.stage \in {"rur", "usd"}
    /\ SimStep
    /\ UNCHANGED <<pricing_vars, fx_vars>>

PricingSimReturn ==
    /\ pricing.stage \in {"rur", "usd"}
    /\ SimReturn
    /\ UNCHANGED <<pricing_vars, fx_vars>>

\* lines 45-47: simulated_rur_rate is bound and the second model is made.
PricingSecondModel ==
    /\ pricing.stage = "rur"
    /\ sim_ret.outcome = "returned"
    /\ pricing' = [pricing EXCEPT !.stage = "usd",
                                  !.simulated_rur_rate = sim_ret.r]
    /\ CirNew(ColumnUSD(history_data), Q(1, pricing.n_fix_dates))
    /\ UNCHANGED <<history_data, fx_vars>>

\* lines 49-51: simulated_usd_rate is bound; fx_rate_predict(n_simulations,
\* n_fix_dates, fx0, simulated_rur_rate, simulated_usd_rate, 0.05).
PricingFxRate ==
    /\ pricing.stage = "usd"
    /\ sim_ret.outcome = "returned"
    /\ FxRatePredict(pricing.n_simulations, pricing.n_fix_dates, pricing.fx0,
                     pricing.simulated_rur_rate, sim_ret.r, FxSigma)
    /\ pricing' = IF fxp'.outcome = "returned"
                  THEN [pricing EXCEPT !.stage = "correlate",
                                       !.simulated_usd_rate = sim_ret.r]
                  ELSE PricingRaised(pricing, fxp'.outcome)
    /\ UNCHANGED <<history_data, accr, cir_vars>>

\* lines 53-54: simulation_correlation(simulated_usd_rate, simulated_rur_rate,
\* simulated_fx_rate, n_simulations, chol_matrix).
PricingCorrelate ==
    /\ pricing.stage = "correlate"
    /\ SimulationCorrelation(pricing.simulated_usd_rate, pricing.simulated_rur_rate,
                             fxp.fx, pricing.n_simulations, pricing.chol_matrix)
    /\ pricing' = IF corr'.outcome = "returned"
                  THEN [pricing EXCEPT !.stage = "accrue"]
                  ELSE PricingRaised(pricing, corr'.outcome)
    /\ UNCHANGED <<history_data, accr, cir_vars>>

\* lines 56-58: range_accrual(notional, n_fix_dates, n_simulations,
\* corr_simulated_fx_rate, upper_bound, lower_bound) and the return.
PricingAccrue ==
    /\ pricing.stage = "accrue"
    /\ RangeAccrual(pricing.notional, pricing.n_fix_dates,
                    pricing.upper_bound, pricing.lower_bound)
    /\ pricing' = [pricing EXCEPT !.stage = "done", !.outcome = "returned",
                                  !.fair_value = accr'.ret]
    /\ UNCHANGED <<history_data, cir_vars>>

----------------------------------------------------------------------------
(* Calibration: one CoxIngersollRossModel and the caller's rate series, under
   every sequence of estimate_ols and optimize_negative_likelihood calls *)

InitCalib ==
    /\ \E ir \in Series, dt \in DeltaTs : CirInit(ir, dt)
    /\ FxIdle
    /\ PricingIdle

NextCalib ==
    \/ EstimateOls /\ UNCHANGED <<fx_vars, pricing_vars>>
    \/ Optimize /\ UNCHANGED <<fx_vars, pricing_vars>>

SpecCalib == InitCalib /\ [][NextCalib]_vars

----------------------------------------------------------------------------
(* Simulation: a model calibrated on one of a few series, then simulated *)

\* A series with a = 4, b = 3/2; one with a = 3 and sigma > 0; one whose
\* estimate has a = 0 and b infinite; one with a zero rate (NaN parameters).
SimSeries ==
    { <<Int2V(1), Int2V(2), Int2V(1)>>,
      <<Int2V(2), Int2V(1), Int2V(2), Int2V(2)>>,
      <<Int2V(1), Int2V(2), Int2V(3)>>,
      <<Int2V(1), Int2V(0), Int2V(2)>> }

InitSim ==
    /\ \E ir \in SimSeries, dt \in DeltaTs : CirInit(ir, dt)
    /\ FxIdle
    /\ PricingIdle

NextSim ==
    \/ EstimateOls /\ UNCHANGED <<fx_vars, pricing_vars>>
    \/ /\ \E r0 \in StartRates, n \in 1..MaxSim, t \in 0..MaxSteps : SimBegin(r0, n, t)
       /\ UNCHANGED <<fx_vars, pricing_vars>>
    \/ SimStep /\ UNCHANGED <<fx_vars, pricing_vars>>
    \/ SimReturn /\ UNCHANGED <<fx_vars, pricing_vars>>

SpecSim == InitSim /\ [][NextSim]_vars

----------------------------------------------------------------------------
(* The FX stages: one call of fx_rate_predict, or one call of
   simulation_correlation followed by range_accrual on its result *)

InitFx ==
    /\ CirInit(<<>>, Q(1, 1))
    /\ FxIdle
    /\ PricingIdle

NextFx ==
    \/ /\ fxp.outcome = "none"
       /\ corr.outcome = "none"
       /\ \E n \in 1..MaxSim, t \in 0..MaxSteps, dom \in RurPaths, for \in UsdPaths :
             FxRatePredict(n, t, FxStart, dom, for, FxSigma)
       /\ UNCHANGED <<accr, cir_vars, pricing_vars>>
    \/ /\ fxp.outcome = "none"
       /\ corr.outcome = "none"
       /\ \E usd \in UsdPaths, rur \in RurPaths, fx \in FxPaths,
             n \in 1..MaxSim, chol \in CholMatrices :
             SimulationCorrelation(usd, rur, fx, n, chol)
       /\ UNCHANGED <<accr, cir_vars, pricing_vars>>
    \/ /\ accr.outcome = "none"
       /\ \E notional \in Notionals, n_fix_dates \in 0..MaxSteps,
             upper_bound \in UpperBounds, lower_bound \in LowerBounds :
             RangeAccrual(notional, n_fix_dates, upper_bound, lower_bound)
       /\ UNCHANGED <<cir_vars, pricing_vars>>

SpecFx == InitFx /\ [][NextFx]_vars

----------------------------------------------------------------------------
(* Pricing: one call of range_accrual_pricing on one of the frames *)

PricingSims == 1..2

PricingFixDates == 0..2

InitPricing ==
    /\ CirInit(<<>>, Q(1, 1))
    /\ FxIdle
    /\ PricingIdle

NextPricing ==
    \/ \E df \in Histories, n \in PricingSims, n_fix_dates \in PricingFixDates,
          chol \in CholMatrices, upper_bound \in UpperBounds :
          PricingBegin(df, n, n_fix_dates, chol, Int2V(3), upper_bound, Int2V(4))
    \/ PricingEstimate
    \/ PricingSimBegin
    \/ PricingSimStep
    \/ PricingSimReturn
    \/ PricingSecondModel
    \/ PricingFxRate
    \/ PricingCorrelate
    \/ PricingAccrue

SpecPricing == InitPricing /\ [][NextPricing]_vars

----------------------------------------------------------------------------
(* Claims about calibration (SpecCalib) *)

Fields == <<a, b, sigma>>

\* A rate under the reciprocal of estimate_ols (any but the last) is exactly 0.
ZeroUnderReciprocal ==
    \E i \in 1..(Len(interest_rate) - 1) : IsZero(interest_rate[i])

\* C5 (as claimed): estimate_ols on a series with a zero rate under the
\* reciprocal ends in an error and never stores NaN or an infinity in a, b, sigma.
C5_ZeroRateIsAnError ==
    (calib.op = "estimate_ols" /\ ZeroUnderReciprocal)
        => /\ calib.outcome # "returned"
           /\ \A i \in 1..3 : ~IsNaN(Fields[i]) /\ ~IsInf(Fields[i])

\* C5 failing run: estimate_ols on a series with a zero rate under the reciprocal
\* returned and left NaN in all three fields.
C5_NaNStored ==
    /\ calib.op = "estimate_ols"
    /\ ZeroUnderReciprocal
    /\ calib.outcome = "returned"
    /\ \A i \in 1..3 : IsNaN(Fields[i])

\* C6 (as claimed): optimize_negative_likelihood fails when the optimizer did
\* not converge, and the fields keep the values they had before the call.
C6_NonConvergenceIsAnError ==
    (calib.op = "optimize" /\ ~calib.success)
        => /\ calib.outcome # "returned"
           /\ Fields = calib.seed_from.x

\* C6 failing run: the optimizer did not converge, the call returned, and the
\* fields hold the optimizer's output instead of the finite values before it.
C6_NonConvergedStored ==
    /\ calib.op = "optimize"
    /\ ~calib.success
    /\ calib.outcome = "returned"
    /\ \A i \in 1..3 : IsNum(calib.seed_from.x[i])
    /\ Fields # calib.seed_from.x
    /\ Fields \in OptimizerX

\* The least-squares estimate of the caller's series.
OlsOfSeries ==
    LET est == OlsEstimate(interest_rate, delta_t)
    IN  <<est.a, est.b, est.sigma>>

\* C10 (as claimed): the initial guess of every optimize_negative_likelihood
\* call is the least-squares estimate estimate_ols produces for the series.
C10_GuessIsOlsEstimate ==
    calib.op = "optimize"
        => /\ ~OlsEstimate(interest_rate, delta_t).err
           /\ calib.guess = OlsOfSeries

\* C10 (amended): the initial guess is what the fields hold at the call: the
\* values the last calibration call that returned stored.  That is the
\* least-squares estimate after estimate_ols, the previous optimizer output
\* after optimize_negative_likelihood, and None, None, None on a new model.
C10_GuessIsCurrentFields ==
    calib.op = "optimize"
        => /\ calib.guess = calib.seed_from.x
           /\ calib.seed_from.op = "estimate_ols" => calib.guess = OlsOfSeries
           /\ calib.seed_from.op = "none" => calib.guess = <<None, None, None>>

\* C10 witness: a second optimize_negative_likelihood in a row, started from
\* the first one's output and not from the least-squares estimate.
C10_Witness ==
    /\ calib.op = "optimize"
    /\ calib.outcome = "returned"
    /\ calib.seed_from.op = "optimize"
    /\ \A i \in 1..3 : IsNum(calib.guess[i])
    /\ calib.guess # OlsOfSeries

----------------------------------------------------------------------------
(* Claims about simulation (SpecSim) *)

\* C7: a finished make_interest_rate_simulations call on a calibrated model
\* returned; what it returns has n_simulations rows of t_steps + 1 columns with
\* r0 in column 0; and the loop ran t_steps times.
C7_SimulationShape ==
    /\ (pc = "idle" /\ sim.n_simulations > 0 /\ ~IsNone(a) /\ ~IsNone(b) /\ ~IsNone(sigma))
          => sim_ret.outcome = "returned"
    /\ sim_ret.outcome = "returned"
          => /\ Len(sim_ret.r) = sim.n_simulations
             /\ \A i \in 1..Len(sim_ret.r) :
                   /\ Len(sim_ret.r[i]) = sim.t_steps + 1
                   /\ sim_ret.r[i][1] = sim.r0
             /\ step = sim.t_steps

\* C7 witness: a model with a > 0 simulated over the most steps, several rows.
C7_Witness ==
    /\ sim_ret.outcome = "returned"
    /\ IsNum(a) /\ a.n > 0
    /\ sim.t_steps = MaxSteps
    /\ sim.n_simulations = MaxSim
    /\ \E i \in 1..MaxSim : sim_ret.r[i][MaxSteps + 1] # sim.r0

----------------------------------------------------------------------------
(* Claims about the FX stages (SpecFx) *)

\* The inputs of simulation_correlation are n_simulations x (t_steps + 1) each.
CorrWellShaped ==
    /\ Shape(corr.usd) = Shape(corr.rur)
    /\ Shape(corr.usd) = Shape(corr.fx)
    /\ Rows(corr.usd) = corr.n_simulations

TurnedOver(m_out, m_in) ==
    /\ Rows(m_out) = Cols(m_in)
    /\ \A t \in 1..Rows(m_out) :
          /\ Len(m_out[t]) = Rows(m_in)
          /\ \A i \in 1..Rows(m_in) : m_out[t][i] = m_in[i][t]

C8_MismatchIsRejected ==
    /\ corr.outcome = "returned" => CorrWellShaped
    /\ fxp.outcome = "returned"
          => /\ Shape(fxp.domestic_rate) = <<fxp.n_simulations, fxp.t_steps + 1>>
             /\ Shape(fxp.foreign_rate) = <<fxp.n_simulations, fxp.t_steps + 1>>

\* C8 failing run: simulation_correlation returned on inputs of three
\* different row counts, all above n_simulations.
C8_MismatchReturned ==
    /\ corr.outcome = "returned"
    /\ Rows(corr.usd) > corr.n_simulations
    /\ Rows(corr.usd) # Rows(corr.rur)
    /\ Rows(corr.usd_corr) = Cols(corr.usd)

\* chol_matrix times the column vector of simulation i at time index t (from 1).
CholTimes(i, t) ==
    [c \in 1..3 |->
        VAdd(VAdd(VMul(corr.chol_matrix[c][1], corr.usd[i][t]),
                  VMul(corr.chol_matrix[c][2], corr.rur[i][t])),
             VMul(corr.chol_matrix[c][3], corr.fx[i][t]))]

\* C9: the outputs hold, for each of the n_simulations simulations i and each
\* time t, chol_matrix times the vector (usd[i][t], rur[i][t], fx[i][t]) and
\* nothing else: no other simulation and no other time step enters.
C9_PerSimulationProduct ==
    corr.outcome = "returned"
        => /\ Rows(corr.usd_corr) = Cols(corr.usd)
           /\ \A t \in 1..Cols(corr.usd) :
                 /\ Len(corr.usd_corr[t]) = corr.n_simulations
                 /\ Len(corr.rur_corr[t]) = corr.n_simulations
                 /\ Len(corr.fx_corr[t]) = corr.n_simulations
                 /\ \A i \in 1..corr.n_simulations :
                       <<corr.usd_corr[t][i], corr.rur_corr[t][i], corr.fx_corr[t][i]>>
                           = CholTimes(i, t)

\* C9 witness: a mixing factor applied to several simulations of several steps.
C9_Witness ==
    /\ corr.outcome = "returned"
    /\ corr.chol_matrix # Identity3
    /\ corr.n_simulations = MaxSim
    /\ Cols(corr.usd) = MaxSteps + 1
    /\ corr.fx_corr[2][1] # corr.fx_corr[2][2]

\* The band of the range_accrual call, on one value.
AccrBand(v) ==
    IF accr.upper_bound.n > 0
    THEN VLe(accr.lower_bound, v) /\ VLe(v, accr.upper_bound)
    ELSE VLe(accr.lower_bound, v)

\* The (simulation, time > 0) points whose correlated FX value is in the band.
AccrHits ==
    {p \in (1..corr.n_simulations) \X (2..Cols(corr.fx)) : AccrBand(CholTimes(p[1], p[2])[3])}

\* C3: range_accrual returns notional * (1/n_simulations) * the sum over all
\* simulation paths of (points after time 0 in the band) / n_fix_dates.
C3_RangeAccrualValue ==
    (accr.outcome = "returned" /\ accr.n_fix_dates >= 1)
        => accr.ret = VMul(VMul(accr.notional, Q(1, corr.n_simulations)),
                           Q(Cardinality(AccrHits), accr.n_fix_dates))

\* C3 witness: a band with an upper bound that some but not all points of
\* several paths meet.
C3_Witness ==
    /\ accr.outcome = "returned"
    /\ accr.n_fix_dates >= 1
    /\ accr.upper_bound.n > 0
    /\ corr.n_simulations = MaxSim
    /\ Cols(corr.fx) = MaxSteps + 1
    /\ Cardinality(AccrHits) > 0
    /\ Cardinality(AccrHits) < MaxSim * MaxSteps

\* The case of C4: no upper bound, lower_bound below every FX value,
\* n_fix_dates the number of points after time 0, n_simulations the paths.
AccrAlwaysInBand ==
    /\ accr.outcome = "returned"
    /\ accr.upper_bound = Int2V(0)
    /\ \A t \in 1..Rows(corr.fx_corr) : \A i \in 1..Len(corr.fx_corr[t]) :
          VLe(accr.lower_bound, corr.fx_corr[t][i]) /\ accr.lower_bound # corr.fx_corr[t][i]
    /\ accr.n_fix_dates = Cols(corr.fx) - 1
    /\ corr.n_simulations = Rows(corr.fx)

\* C4 (as claimed): in that case range_accrual returns exactly notional.
C4_AlwaysInBandPaysNotional ==
    AccrAlwaysInBand => accr.ret = accr.notional

\* C4 (amended): in that case, and with at least one fixing date, range_accrual
\* returns notional.
C4_AlwaysInBandPaysNotionalFixings ==
    (AccrAlwaysInBand /\ accr.n_fix_dates >= 1) => accr.ret = accr.notional

\* C4 witness: the case with several paths and several fixing dates.
C4_Witness ==
    /\ AccrAlwaysInBand
    /\ accr.n_fix_dates = MaxSteps
    /\ corr.n_simulations = MaxSim
    /\ accr.notional = Int2V(3)

----------------------------------------------------------------------------
(* Claims about range_accrual_pricing (SpecPricing) *)

\* The most recent observation of the frame: the row with the greatest Date.
MostRecent ==
    history_data[CHOOSE i \in 1..Len(history_data) :
                    \A j \in 1..Len(history_data) :
                        history_data[j].Date <= history_data[i].Date]

\* C1 (as claimed): whatever the row order and the row labels of history_data,
\* range_accrual_pricing gets its three start values, and they are the RUR, USD
\* and FX-Rate of the row with the greatest Date.
C1_StartValuesAreMostRecent ==
    pricing.stage # "none"
        => /\ pricing.outcome # "KeyError"
           /\ pricing.r_start_rur = MostRecent.RUR
           /\ pricing.r_start_usd = MostRecent.USD
           /\ pricing.fx0 = MostRecent.FX_Rate

\* A frame in rising date order under the default labels 0, 1, 2, priced to
\* the end from the values of its oldest row.
C1_OldestRowTaken ==
    /\ pricing.outcome = "returned"
    /\ \A i \in 1..Len(history_data) :
          history_data[i].label = IntLabel(i - 1) /\ history_data[i].Date = i
    /\ pricing.fx0 = history_data[1].FX_Rate
    /\ pricing.fx0 # MostRecent.FX_Rate

====
